---- MODULE Spec2Model ----
(***************************************************************************)
(* Model of the hyperparameter optimizer of metabolomic_analysis           *)
(* (src/metabolomic_analysis/optim/optimizer.py): ParamRange, the worker   *)
(* processes (_worker) and the coordinator (Optimizer.optimize).           *)
(*                                                                         *)
(* The coordinator and the worker processes run concurrently; every        *)
(* action is one step of one of them.  The study database (optuna, backed  *)
(* by a sqlite file) is `ledger`, the trials of the study listed under the *)
(* worker that created them, plus the flag `dbExists` for the backing      *)
(* file.  The program never looks at the order in which different workers  *)
(* created their trials.                                                   *)
(***************************************************************************)
EXTENDS Integers, Sequences, FiniteSets, TLC

(* ---------------------------- bounds ----------------------------------- *)
\* largest trial budget n explored
MaxTrials == 2
\* largest worker count (and cpu count) explored
MaxWorkers == 2
\* objective values are 1..MaxValue
MaxValue == 2
\* largest number of rows of a dataset without pairing information
MaxRows == 6
\* largest number of pairs of a dataset with pairing information
MaxPairs == 4

(* ---------------------------- helpers ---------------------------------- *)
Min(a, b) == IF a < b THEN a ELSE b

\* Python's Optional[T]: {} is None, {x} is the value x
Optional(S) == {{}} \cup {{x} : x \in S}
TheValue(o) == CHOOSE x \in o : TRUE

Workers == 0 .. (MaxWorkers - 1)
Values == 1 .. MaxValue

\* a dict of hyperparameters is a set of <<name, value>> pairs; {} is the empty dict
EmptyParams == {}
NoRange == [raised |-> FALSE, min_value |-> {}, max_value |-> {}, discrete_values |-> {},
            log |-> FALSE, integer |-> FALSE]

(* ---------------------------- ParamRange ------------------------------- *)
\* ParamRange.__init__: the three checks in the order of the code, then the fields
ParamRange(min_value, max_value, discrete_values, log, integer) ==
    LET min_v == (min_value = {})
        max_v == (max_value = {})
        dis_v == (discrete_values = {})
        any == min_v \/ max_v
        all == min_v /\ max_v
        raised == \/ (any /\ ~all)
                  \/ (any /\ dis_v)
                  \/ (all /\ dis_v)
    IN  IF raised THEN [NoRange EXCEPT !.raised = TRUE]
        ELSE [raised |-> FALSE, min_value |-> min_value, max_value |-> max_value,
              discrete_values |-> discrete_values, log |-> log, integer |-> integer]

\* _objective, lines 52-60: the values the trial may suggest for the parameter
Suggest(pr) ==
    IF pr.discrete_values # {}
    THEN {TheValue(pr.discrete_values)[k] : k \in DOMAIN TheValue(pr.discrete_values)}
    ELSE TheValue(pr.min_value) .. TheValue(pr.max_value)

(* ---------------------------- datasets --------------------------------- *)
Labels == {0, 1, 2}
Row(g, l) == [pair |-> g, label |-> l]

\* label lists in non-decreasing order, of a given length
RECURSIVE SortedLabels(_)
SortedLabels(k) ==
    IF k = 0 THEN {<<>>}
    ELSE {Append(p[1], p[2]) :
            p \in {q \in SortedLabels(k - 1) \X Labels :
                      Len(q[1]) = 0 \/ q[1][Len(q[1])] <= q[2]}}

\* datasets without pairing information: every row has pair 0
PlainData ==
    UNION {{[i \in 1 .. k |-> Row(0, ls[i])] : ls \in SortedLabels(k)} : k \in 1 .. MaxRows}

\* the rows of one pair: one or two rows
PairShapes == SortedLabels(1) \cup SortedLabels(2)
ShapeCode(s) == IF Len(s) = 1 THEN s[1] ELSE 3 + 3 * s[1] + s[2]

RECURSIVE SortedShapes(_)
SortedShapes(k) ==
    IF k = 0 THEN {<<>>}
    ELSE {Append(p[1], p[2]) :
            p \in {q \in SortedShapes(k - 1) \X PairShapes :
                      Len(q[1]) = 0 \/ ShapeCode(q[1][Len(q[1])]) <= ShapeCode(q[2])}}

RECURSIVE Flatten(_, _)
Flatten(shapes, g) ==
    IF g > Len(shapes) THEN <<>>
    ELSE [i \in 1 .. Len(shapes[g]) |-> Row(g, shapes[g][i])] \o Flatten(shapes, g + 1)

PairedData ==
    UNION {{Flatten(s, 1) : s \in SortedShapes(k)} : k \in 1 .. MaxPairs}

\* the smallest dataset without pairing whose three classes survive a stratified
\* split with unequal training counts: labels 0, 0, 0, 1, 1, 2, 2
ThreeClassLabels == <<0, 0, 0, 1, 1, 2, 2>>
ThreeClassData == {[i \in DOMAIN ThreeClassLabels |-> Row(0, ThreeClassLabels[i])]}


(* ---------------------------- split inputs ----------------------------- *)
\* ratios are pairs <<numerator, denominator>>
TestRatios == {<<1, 5>>, <<2, 5>>, <<6, 5>>}
SplitCounts == {0, 1, 2}
ProportionDiffs == Optional({<<0, 1>>, <<1, 5>>})

Index(d) == DOMAIN d
LabelsOf(d, S) == {d[i].label : i \in S}
PairsOf(d, S) == {d[i].pair : i \in S}
RowsOfPairs(d, P) == {i \in Index(d) : d[i].pair \in P}
ClassRows(d, S, l) == {i \in S : d[i].label = l}

Ceil(a, b) == (a + b - 1) \div b

RECURSIVE Sum(_, _)
Sum(f, S) == IF S = {} THEN 0
             ELSE LET e == CHOOSE e \in S : TRUE IN f[e] + Sum(f, S \ {e})

(* ---------------------------- train_test_split ------------------------- *)
\* variant of NTest: the size of the test part is rounded down
NTestFloor(k, r) == (r[1] * k) \div r[2]

\* sklearn's train_test_split(items, test_size=r, stratify=lab): n_test is
\* ceil(r * n), the rest is the training part
NTest(k, r) == Ceil(r[1] * k, r[2])

Members(S, lab, c) == {i \in S : lab[i] = c}

\* the ValueErrors of the stratified split
TrainTestSplitRaises(S, lab, r) ==
    LET k == Cardinality(S)
        n_test == NTest(k, r)
        n_train == k - n_test
        classes == {lab[i] : i \in S}
    IN  \/ r[1] <= 0 \/ r[1] >= r[2]
        \/ n_train <= 0
        \/ \E c \in classes : Cardinality(Members(S, lab, c)) < 2
        \/ n_train < Cardinality(classes)
        \/ n_test < Cardinality(classes)

\* the training counts per class: the floor of the proportional share, the
\* classes with the largest remainders get one more
TrainCounts(S, lab, r) ==
    LET k == Cardinality(S)
        n_train == k - NTest(k, r)
        classes == {lab[i] : i \in S}
        share == [c \in classes |-> Cardinality(Members(S, lab, c)) * n_train]
        floored == [c \in classes |-> share[c] \div k]
        rest == [c \in classes |-> share[c] % k]
        need == n_train - Sum(floored, classes)
    IN  {[c \in classes |-> floored[c] + (IF c \in U THEN 1 ELSE 0)] :
            U \in {V \in SUBSET classes :
                      /\ Cardinality(V) = need
                      /\ \A a \in V, b \in classes \ V : rest[a] >= rest[b]}}

\* variant of TrainTestSplit: the test part is drawn from all the items, the
\* training items included
TrainTestSplitOverlapping(S, lab, r) ==
    {<<T, S>> :
        T \in {V \in SUBSET S :
                  \E n \in TrainCounts(S, lab, r) :
                      \A c \in DOMAIN n : Cardinality(Members(V, lab, c)) = n[c]}}

\* the possible results <<train, test>>
TrainTestSplit(S, lab, r) ==
    {<<T, S \ T>> :
        T \in {V \in SUBSET S :
                  \E n \in TrainCounts(S, lab, r) :
                      \A c \in DOMAIN n : Cardinality(Members(V, lab, c)) = n[c]}}

(* ---------------------------- _redistribute ---------------------------- *)
\* int(min_proportion * (d + 1) / (1 - d) * len(X)): the product is computed in
\* binary floating point; when its exact value is an integer k the computed
\* value may lie just below k, and int() then gives k - 1
MajorityCounts(min_count, d) ==
    LET num == min_count * (d[2] + d[1])
        den == d[2] - d[1]
    IN  IF num % den = 0 THEN {num \div den, (num \div den) - 1} ELSE {num \div den}

\* the possible corrected training folds
Redistribute(dat, T, d) ==
    LET classes == LabelsOf(dat, T)
        count == [c \in classes |-> Cardinality(ClassRows(dat, T, c))]
        largest == {c \in classes : \A e \in classes : count[e] <= count[c]}
        smallest == {c \in classes : \A e \in classes : count[e] >= count[c]}
    IN  IF \E a \in largest, b \in smallest :
              (count[a] - count[b]) * d[2] > d[1] * Cardinality(T)
        THEN UNION {{M \cup ClassRows(dat, T, minority) :
                        M \in {V \in SUBSET ClassRows(dat, T, majority) :
                                  Cardinality(V) \in MajorityCounts(count[minority], d)}} :
                    <<majority, minority>> \in largest \X smallest}
        ELSE {T}

(* ---------------------------- state ------------------------------------ *)
VARIABLES
    pc,           \* position of the coordinator (the caller's thread)
    args,         \* the arguments of the ParamRange constructor call
    param_grid,   \* the ParamRange of the one hyperparameter "x"
    n, cv, num_workers,   \* Optimizer fields
    timeout, progress,    \* arguments of optimize(): timeout (0 = None/0), progress_cb given
    folds,        \* number of cross-validation folds built by the split (-1: not built)
    study,        \* TRUE once create_study has returned
    dbExists,     \* the sqlite file exists
    ledger,       \* the trials of the study: for each worker, those it created, in order
    nworkers,     \* the local num_workers of optimize()
    idx,          \* loop index of the launch / join / finally loops
    processes,    \* the list `processes`
    worker,       \* state of each worker process
    elapsed,      \* ticks spent in the current join(timeout)
    sinceWait,    \* ticks since the coordinator entered the join loop
    reported,     \* values passed to progress_cb, last one (or -1)
    retval,       \* the value of the pending / executed return statement
    outcome,      \* "none", "returned", "raised"
    error,        \* name of the last exception raised in the coordinator
    warned,       \* the teardown logged the could-not-delete warning
    data,         \* the dataset handed to a split routine: its rows (pair id, label)
    spliter,      \* the Spliter object: test_ratio, num_splits, max_proportion_diff
    pairing,      \* pairing information was passed to the split routine
    routine,      \* the split routine that is called
    splits,       \* the list of splits built so far (train and test row indices)
    fold,         \* the train and test rows of the last iteration, after the correction
    spc,          \* position in the split routine
    serror,       \* name of the exception raised by the split routine
    model,        \* Optimizer.model: None ({}) or the model object
    fpc,          \* position in fit()
    scored,       \* what the last call of score() since the last call of fit() gave
    tpc,          \* position of a worker's trial on the folds (_worker, _objective)
    scores,       \* the per-fold evaluations of the trial: rows used and score
    objective,    \* the value the trial reports
    results       \* analysis_pipeline: what was passed to fit() and to score()

vars == <<pc, args, param_grid, n, cv, num_workers, timeout, progress, folds, study, dbExists,
          ledger, nworkers, idx, processes, worker, elapsed, sinceWait, reported,
          retval, outcome, error, warned,
          data, spliter, pairing, routine, splits, fold, spc, serror,
          model, fpc, scored,
          tpc, scores, objective, results>>

splitVars == <<data, spliter, pairing, routine, splits, fold, spc, serror>>
fitVars == <<model, fpc, scored>>
evalVars == <<tpc, scores, objective, results>>

NoWorker == [status |-> "none", wpc |-> "boot", share |-> 0, attempts |-> 0]

\* a study without trials
NoTrials == [w \in Workers |-> <<>>]

Alive(w) == worker[w].status \in {"alive", "terminating"}
AnyAlive == \E k \in DOMAIN processes : Alive(processes[k])

\* everything but the constructed objects, before any call
Idle ==
    /\ timeout = 0 /\ progress = FALSE
    /\ folds = -1
    /\ study = FALSE
    /\ dbExists = FALSE
    /\ ledger = NoTrials
    /\ nworkers = 0
    /\ idx = 0
    /\ processes = <<>>
    /\ worker = [w \in Workers |-> NoWorker]
    /\ elapsed = 0
    /\ sinceWait = 0
    /\ reported = -1
    /\ retval = EmptyParams
    /\ outcome = "none"
    /\ error = "none"
    /\ warned = FALSE

\* no split routine has been called
NoSpliter == [test_ratio |-> <<1, 5>>, num_splits |-> 0, max_proportion_diff |-> {}]
NoFold == [train |-> {}, test |-> {}]
NoSplit ==
    /\ data = <<>>
    /\ fold = NoFold
    /\ spliter = NoSpliter
    /\ pairing = FALSE
    /\ routine = "none"
    /\ splits = <<>>
    /\ spc = "off"
    /\ serror = "none"

\* no trial is evaluated, the pipeline is not running
NoObjective == [sum |-> 0, folds |-> 0, dev |-> 0, residue |-> FALSE]
NoEval ==
    /\ tpc = "off"
    /\ scores = <<>>
    /\ objective = NoObjective
    /\ results = <<>>

\* no call of score() yet
\* (again: the call before it, after the same fit(), was given the same data)
NoScore == [called |-> FALSE, raised |-> "none", value |-> <<>>, data |-> "none",
            again |-> FALSE]

\* fit() and score() have not been called: Optimizer.model is None
NoFit ==
    /\ model = {}
    /\ fpc = "idle"
    /\ scored = NoScore

(* ---------------------------- inputs ----------------------------------- *)
MinArgs == Optional({1, 2})                      \* min_value: None or a number
MaxArgs == Optional({1, 2})                      \* max_value: None or a number
DiscreteArgs == Optional({<<1>>, <<1, 2>>})      \* discrete_values: None or a list
TrialCounts == -1 .. MaxTrials                   \* n
WorkerCounts == -2 .. (MaxWorkers - 1)           \* num_workers (-1 = all cores)
CpuCount == MaxWorkers                           \* os.cpu_count()
CvCounts == {-1, 0, 2}                           \* cv
CvFoldCounts == CvCounts \cup {1, 3}             \* cv, for the split alone
Spliters == [test_ratio : TestRatios, num_splits : SplitCounts,
             max_proportion_diff : ProportionDiffs]
Timeouts == {0, 1}                               \* timeout: None (or 0), or the bound T;
                                                 \* the clock counts in units of T

\* the search space used by the optimizer runs: {"x": ParamRange(1, 2, integer=True)}
GridArgs == [min_value |-> {1}, max_value |-> {2}, discrete_values |-> {},
             log |-> FALSE, integer |-> TRUE]

(* ---------------------------- construction ----------------------------- *)
\* the state after Optimizer(model_cls, n, cv, param_grid, num_workers):
\* __init__ stores its arguments and checks nothing
Init ==
    /\ pc = "ready"
    /\ args = GridArgs
    /\ param_grid = ParamRange(GridArgs.min_value, GridArgs.max_value,
                               GridArgs.discrete_values, GridArgs.log, GridArgs.integer)
    /\ n \in TrialCounts
    /\ cv \in CvCounts
    /\ num_workers \in WorkerCounts
    /\ Idle
    /\ NoSplit
    /\ NoFit
    /\ NoEval

\* the state after Optimizer(model_cls, n, cv, param_grid, num_workers=2)
FitInit ==
    /\ pc = "ready"
    /\ args = GridArgs
    /\ param_grid = ParamRange(GridArgs.min_value, GridArgs.max_value,
                               GridArgs.discrete_values, GridArgs.log, GridArgs.integer)
    /\ n \in TrialCounts
    /\ cv \in CvCounts
    /\ num_workers = 2
    /\ Idle
    /\ NoSplit
    /\ NoFit
    /\ NoEval

\* the state before a call ParamRange(min_value, max_value, discrete_values, log, integer)
ParamInit ==
    /\ pc = "new"
    /\ args \in [min_value : MinArgs, max_value : MaxArgs, discrete_values : DiscreteArgs,
                 log : BOOLEAN, integer : BOOLEAN]
    /\ param_grid = NoRange
    /\ n = 0 /\ cv = 0 /\ num_workers = -1
    /\ Idle
    /\ NoSplit
    /\ NoFit
    /\ NoEval

\* the state before a call of a split routine: Spliter(test_ratio, num_splits,
\* max_proportion_diff).split(X, y, pairing_column), or the _pair_split of an
\* Optimizer with cv folds
SplitInit ==
    /\ pc = "ready"
    /\ args = GridArgs
    /\ param_grid = ParamRange(GridArgs.min_value, GridArgs.max_value,
                               GridArgs.discrete_values, GridArgs.log, GridArgs.integer)
    /\ n = 0 /\ num_workers = -1
    /\ Idle
    /\ NoFit
    /\ NoEval
    /\ routine \in {"Spliter.split", "Optimizer._pair_split"}
    /\ IF routine = "Spliter.split"
       THEN /\ spliter \in Spliters
            /\ pairing \in BOOLEAN
            /\ cv = 2
       ELSE /\ spliter = NoSpliter
            /\ pairing = TRUE
            /\ cv \in CvCounts
    /\ data \in (IF pairing THEN PairedData ELSE PlainData \cup ThreeClassData)
    /\ splits = <<>>
    /\ fold = NoFold
    /\ spc = "call"
    /\ serror = "none"

\* the call of the constructor: the object, or the ValueError it raises
NewParamRange ==
    /\ pc = "new"
    /\ LET pr == ParamRange(args.min_value, args.max_value, args.discrete_values,
                            args.log, args.integer)
       IN  IF pr.raised
           THEN /\ outcome' = "raised"
                /\ error' = "ValueError"
                /\ UNCHANGED param_grid
           ELSE /\ param_grid' = pr
                /\ UNCHANGED <<outcome, error>>
    /\ pc' = "constructed"
    /\ UNCHANGED <<args, n, cv, num_workers, timeout, progress, folds, study, dbExists,
                   ledger, nworkers, idx, processes, worker, elapsed, sinceWait, reported,
                   retval, warned,
                   splitVars, fitVars, evalVars>>

(* ---------------------------- optimize(): setup ------------------------ *)
\* the call optimize(X, y, timeout=..., progress_cb=...)
Optimize ==
    /\ pc = "ready"
    /\ \E t \in Timeouts, cb \in BOOLEAN :
          /\ timeout' = t
          /\ progress' = cb
    /\ pc' = "split"
    /\ UNCHANGED <<args, param_grid, n, cv, num_workers, folds, study, dbExists, ledger, nworkers,
                   idx, processes, worker, elapsed, sinceWait, reported, retval, outcome,
                   error, warned,
                   splitVars, fitVars, evalVars>>

\* _split / _pair_split, before the try block: len(X) // self.cv raises
\* ZeroDivisionError for cv = 0; range(self.cv) builds cv folds (none for cv < 0)
Split ==
    /\ pc = "split"
    /\ IF cv = 0
       THEN /\ pc' = "done"
            /\ outcome' = "raised"
            /\ error' = "ZeroDivisionError"
            /\ UNCHANGED folds
       ELSE /\ pc' = "create"
            /\ folds' = (IF cv < 0 THEN 0 ELSE cv)
            /\ UNCHANGED <<outcome, error>>
    /\ UNCHANGED <<args, param_grid, n, cv, num_workers, timeout, progress, study, dbExists,
                   ledger, nworkers, idx, processes, worker, elapsed, sinceWait, reported,
                   retval, warned,
                   splitVars, fitVars, evalVars>>

\* optuna.create_study succeeds: the sqlite file and the empty study exist
CreateStudy ==
    /\ pc = "create"
    /\ study' = TRUE
    /\ dbExists' = TRUE
    /\ ledger' = NoTrials
    /\ pc' = "workers"
    /\ UNCHANGED <<args, param_grid, n, cv, num_workers, timeout, progress, folds, nworkers, idx,
                   processes, worker, elapsed, sinceWait, reported, retval, outcome, error,
                   warned,
                   splitVars, fitVars, evalVars>>

\* variant of CreateStudyFails: create_study is called outside the try block
CreateStudyRaises ==
    /\ pc = "create"
    /\ error' = "CreateStudyError"
    /\ pc' = "done"
    /\ outcome' = "raised"
    /\ UNCHANGED <<args, param_grid, n, cv, num_workers, timeout, progress, folds, study,
                   dbExists, ledger, nworkers, idx, processes, worker, elapsed, sinceWait,
                   reported, retval, warned,
                   splitVars, fitVars, evalVars>>

\* optuna.create_study raises (storage cannot be created): caught by `except Exception`
CreateStudyFails ==
    /\ pc = "create"
    /\ error' = "CreateStudyError"
    /\ pc' = "except"
    /\ UNCHANGED <<args, param_grid, n, cv, num_workers, timeout, progress, folds, study, dbExists,
                   ledger, nworkers, idx, processes, worker, elapsed, sinceWait, reported,
                   retval, outcome, warned,
                   splitVars, fitVars, evalVars>>

\* lines 184-190: resolve -1 to the cpu count, then n // num_workers and n % num_workers
ResolveWorkers ==
    /\ pc = "workers"
    /\ LET w == IF num_workers = -1 THEN CpuCount ELSE num_workers
       IN  /\ nworkers' = w
           /\ IF w = 0
              THEN /\ error' = "ZeroDivisionError"
                   /\ pc' = "except"
              ELSE /\ pc' = "launch"
                   /\ UNCHANGED error
    /\ idx' = 0
    /\ UNCHANGED <<args, param_grid, n, cv, num_workers, timeout, progress, folds, study, dbExists,
                   ledger, processes, worker, elapsed, sinceWait, reported, retval, outcome,
                   warned,
                   splitVars, fitVars, evalVars>>

\* variant of WorkerTrials: the remainder test is off by one (i <= remaining_trials)
WorkerTrialsOffByOne(i, total, w) ==
    (total \div w) + (IF i <= (total % w) THEN 1 ELSE 0)

\* line 204: the share of worker i
WorkerTrials(i, total, w) ==
    (total \div w) + (IF i < (total % w) THEN 1 ELSE 0)

\* one iteration of the launch loop whose process.start() succeeds or is skipped
LaunchWorker ==
    /\ pc = "launch"
    /\ idx < nworkers
    /\ LET worker_trials == WorkerTrials(idx, n, nworkers)
       IN  IF worker_trials > 0
           THEN /\ worker' = [worker EXCEPT ![idx] =
                                 [NoWorker EXCEPT !.status = "alive", !.share = worker_trials]]
                /\ processes' = Append(processes, idx)
           ELSE UNCHANGED <<worker, processes>>
    /\ idx' = idx + 1
    /\ UNCHANGED <<pc, args, param_grid, n, cv, num_workers, timeout, progress, folds, study,
                   dbExists, ledger, nworkers, elapsed, sinceWait, reported, retval, outcome,
                   error, warned,
                   splitVars, fitVars, evalVars>>

\* process.start() raises (the process cannot be spawned)
LaunchFails ==
    /\ pc = "launch"
    /\ idx < nworkers
    /\ WorkerTrials(idx, n, nworkers) > 0
    /\ error' = "OSError"
    /\ pc' = "except"
    /\ UNCHANGED <<args, param_grid, n, cv, num_workers, timeout, progress, folds, study, dbExists,
                   ledger, nworkers, idx, processes, worker, elapsed, sinceWait, reported,
                   retval, outcome, warned,
                   splitVars, fitVars, evalVars>>

\* the launch loop is over: monitor if a callback was given, then join
LaunchDone ==
    /\ pc = "launch"
    /\ idx >= nworkers
    /\ pc' = (IF progress THEN "monitor" ELSE "join")
    /\ idx' = 1
    /\ elapsed' = 0
    /\ sinceWait' = 0
    /\ UNCHANGED <<args, param_grid, n, cv, num_workers, timeout, progress, folds, study, dbExists,
                   ledger, nworkers, processes, worker, reported, retval, outcome, error,
                   warned,
                   splitVars, fitVars, evalVars>>

(* ---------------------------- the study -------------------------------- *)
Trial(params) == [params |-> params, value |-> 0, state |-> "RUNNING"]

\* study.trials: a trial is named by its worker and its position in the worker's list
Trials(l) == UNION {{<<w, i>> : i \in DOMAIN l[w]} : w \in Workers}
TrialAt(l, t) == l[t[1]][t[2]]

CompleteTrials(l) == {t \in Trials(l) : TrialAt(l, t).state = "COMPLETE"}

\* variant of BestTrials: the direction of the study is "minimize"
BestTrialsMinimize(l) ==
    {t \in CompleteTrials(l) :
        \A k \in CompleteTrials(l) : TrialAt(l, k).value >= TrialAt(l, t).value}

\* variant of BestTrials: the state of the trials is not looked at
BestTrialsAnyState(l) ==
    {t \in Trials(l) : \A k \in Trials(l) : TrialAt(l, k).value <= TrialAt(l, t).value}

\* study.best_trial: a COMPLETE trial with the largest value (direction="maximize");
\* the storage query (ORDER BY value DESC LIMIT 1) leaves the choice among equal
\* values open, so every maximal trial is a possible answer
BestTrials(l) ==
    {t \in CompleteTrials(l) :
        \A k \in CompleteTrials(l) : TrialAt(l, k).value <= TrialAt(l, t).value}

(* ---------------------------- _worker ---------------------------------- *)
Running(w) == worker[w].status = "alive"

\* what remains unchanged in every worker step
WorkerFrame ==
    UNCHANGED <<pc, args, param_grid, n, cv, num_workers, timeout, progress, folds, study,
                dbExists, nworkers, idx, processes, elapsed, sinceWait, reported, retval,
                outcome, error, warned, splitVars, fitVars, evalVars>>

\* lines 93-95: the check on the fold lists, then load_study; either may raise,
\* which ends the process (nothing is reported to the coordinator)
WorkerBoot(w) ==
    /\ Running(w)
    /\ worker[w].wpc = "boot"
    /\ IF folds = 0
       THEN worker' = [worker EXCEPT ![w].status = "crashed"]
       ELSE \/ worker' = [worker EXCEPT ![w].wpc = "loop"]
            \/ worker' = [worker EXCEPT ![w].status = "crashed"]
    /\ UNCHANGED ledger
    /\ WorkerFrame

\* after an attempt: the next iteration of `for i in range(n)`
AfterAttempt(w) ==
    [worker[w] EXCEPT !.attempts = @ + 1, !.wpc = "loop"]

\* variant of AfterFailure: a failed attempt is repeated, it does not count
AfterFailureRetry(w) ==
    [worker[w] EXCEPT !.wpc = "loop"]

\* lines 101-103: `except Exception` prints and continues with the next iteration
AfterFailure(w) ==
    AfterAttempt(w)

\* study.optimize(..., n_trials=1) asks for a trial: it is stored RUNNING with
\* the suggested hyperparameters
BeginTrial(w) ==
    /\ Running(w)
    /\ worker[w].wpc = "loop"
    /\ worker[w].attempts < worker[w].share
    /\ \E v \in Suggest(param_grid) :
          ledger' = [ledger EXCEPT ![w] = Append(@, Trial({<<"x", v>>}))]
    /\ worker' = [worker EXCEPT ![w].wpc = "trial"]
    /\ WorkerFrame

\* variant of CompleteTrial: the result is written to the worker's first trial
CompleteTrialFirst(w) ==
    /\ Running(w)
    /\ worker[w].wpc = "trial"
    /\ \E v \in Values :
          ledger' = [ledger EXCEPT ![w][1].state = "COMPLETE",
                                   ![w][1].value = v]
    /\ worker' = [worker EXCEPT ![w] = AfterAttempt(w)]
    /\ WorkerFrame

\* _objective returns: the trial becomes COMPLETE with its value
CompleteTrial(w) ==
    /\ Running(w)
    /\ worker[w].wpc = "trial"
    /\ \E v \in Values :
          ledger' = [ledger EXCEPT ![w][Len(ledger[w])].state = "COMPLETE",
                                   ![w][Len(ledger[w])].value = v]
    /\ worker' = [worker EXCEPT ![w] = AfterAttempt(w)]
    /\ WorkerFrame

\* _objective raises: optuna marks the trial FAIL and re-raises, the worker's
\* `except Exception` prints and continues
FailTrial(w) ==
    /\ Running(w)
    /\ worker[w].wpc = "trial"
    /\ ledger' = [ledger EXCEPT ![w][Len(ledger[w])].state = "FAIL"]
    /\ worker' = [worker EXCEPT ![w] = AfterFailure(w)]
    /\ WorkerFrame

\* study.optimize raises before a trial is stored (the storage is busy): caught alike
AttemptError(w) ==
    /\ Running(w)
    /\ worker[w].wpc = "loop"
    /\ worker[w].attempts < worker[w].share
    /\ worker' = [worker EXCEPT ![w] = AfterFailure(w)]
    /\ UNCHANGED ledger
    /\ WorkerFrame

\* the loop is over, the process exits
WorkerExit(w) ==
    /\ Running(w)
    /\ worker[w].wpc = "loop"
    /\ worker[w].attempts >= worker[w].share
    /\ worker' = [worker EXCEPT ![w].status = "exited"]
    /\ UNCHANGED ledger
    /\ WorkerFrame

\* a process that was sent SIGTERM by the terminate() of the exception handler dies
WorkerDies(w) ==
    /\ worker[w].status = "terminating"
    /\ worker' = [worker EXCEPT ![w].status = "killed"]
    /\ UNCHANGED ledger
    /\ WorkerFrame

\* variant of TerminateAndJoin: terminate() is not followed by a join()
TerminateOnly(ws, w) == [ws EXCEPT ![w].status = "terminating"]

\* process.terminate() immediately followed by process.join(): the process has
\* been killed when the join returns
TerminateAndJoin(ws, w) == [ws EXCEPT ![w].status = "killed"]

(* ---------------------------- optimize(): waiting ---------------------- *)
CoordFrame ==
    UNCHANGED <<args, param_grid, n, cv, num_workers, timeout, progress, folds, study,
                nworkers, processes, splitVars, fitVars, evalVars>>

\* `while any(p.is_alive() ...)` found a live worker: time.sleep(5)
MonitorSleep ==
    /\ pc = "monitor"
    /\ AnyAlive
    /\ pc' = "sleep"
    /\ UNCHANGED <<dbExists, ledger, idx, worker, elapsed, sinceWait, reported, retval,
                   outcome, error, warned>>
    /\ CoordFrame

\* variant of Poll: every trial is counted, whatever its state
PollCountsAll ==
    /\ pc = "sleep"
    /\ reported' = Cardinality(Trials(ledger))
    /\ pc' = "monitor"
    /\ UNCHANGED <<dbExists, ledger, idx, worker, elapsed, sinceWait, retval, outcome,
                   error, warned>>
    /\ CoordFrame

\* after the sleep: load the study and report the number of COMPLETE trials
Poll ==
    /\ pc = "sleep"
    /\ reported' = Cardinality(CompleteTrials(ledger))
    /\ pc' = "monitor"
    /\ UNCHANGED <<dbExists, ledger, idx, worker, elapsed, sinceWait, retval, outcome,
                   error, warned>>
    /\ CoordFrame

\* after the sleep: load_study raises, the bare `except: pass` swallows it
PollFails ==
    /\ pc = "sleep"
    /\ pc' = "monitor"
    /\ UNCHANGED <<dbExists, ledger, idx, worker, elapsed, sinceWait, reported, retval,
                   outcome, error, warned>>
    /\ CoordFrame

\* the monitoring loop ends when no worker is alive
MonitorDone ==
    /\ pc = "monitor"
    /\ ~AnyAlive
    /\ pc' = "join"
    /\ UNCHANGED <<dbExists, ledger, idx, worker, elapsed, sinceWait, reported, retval,
                   outcome, error, warned>>
    /\ CoordFrame

\* the coordinator is inside process.join(timeout=timeout) (`if timeout:` was true)
InTimedJoin == pc = "join" /\ timeout # 0 /\ idx <= Len(processes)

\* ... and the bound has passed
JoinExpired == InTimedJoin /\ elapsed >= timeout

\* one tick of the wall clock while the coordinator is blocked in a
\* join(timeout) on a live process; a join whose bound has passed returns
\* before the next tick (a join on an ended process returns at once)
Tick ==
    /\ InTimedJoin
    /\ Alive(processes[idx])
    /\ ~JoinExpired
    /\ sinceWait' = sinceWait + 1
    /\ elapsed' = elapsed + 1
    /\ UNCHANGED <<pc, dbExists, ledger, idx, worker, reported, retval, outcome, error,
                   warned>>
    /\ CoordFrame

\* process.join() / process.join(timeout) returns because the process has ended
JoinEnded ==
    /\ pc = "join"
    /\ idx <= Len(processes)
    /\ ~Alive(processes[idx])
    /\ idx' = idx + 1
    /\ elapsed' = 0
    /\ UNCHANGED <<pc, dbExists, ledger, worker, sinceWait, reported, retval, outcome,
                   error, warned>>
    /\ CoordFrame

\* process.join(timeout) returns on the bound, the process is alive:
\* terminate() and join()
JoinTimeout ==
    /\ JoinExpired
    /\ Alive(processes[idx])
    /\ worker' = TerminateAndJoin(worker, processes[idx])
    /\ idx' = idx + 1
    /\ elapsed' = 0
    /\ UNCHANGED <<pc, dbExists, ledger, sinceWait, reported, retval, outcome, error,
                   warned>>
    /\ CoordFrame

\* the join loop is over
JoinDone ==
    /\ pc = "join"
    /\ idx > Len(processes)
    /\ pc' = "best"
    /\ UNCHANGED <<dbExists, ledger, idx, worker, elapsed, sinceWait, reported, retval,
                   outcome, error, warned>>
    /\ CoordFrame

(* ---------------------------- optimize(): result ----------------------- *)
\* lines 238-250: load the study; no trial at all gives {}, otherwise
\* study.best_params, which raises ValueError when no trial is COMPLETE
ReadBest ==
    /\ pc = "best"
    /\ IF Trials(ledger) = {}
       THEN /\ retval' = EmptyParams
            /\ pc' = "finally"
            /\ UNCHANGED error
       ELSE IF BestTrials(ledger) = {}
            THEN /\ error' = "ValueError"
                 /\ pc' = "except"
                 /\ UNCHANGED retval
            ELSE /\ \E t \in BestTrials(ledger) : retval' = TrialAt(ledger, t).params
                 /\ pc' = "finally"
                 /\ UNCHANGED error
    /\ idx' = 1
    /\ UNCHANGED <<dbExists, ledger, worker, elapsed, sinceWait, reported, outcome, warned>>
    /\ CoordFrame

\* line 238: load_study raises
ReadBestFails ==
    /\ pc = "best"
    /\ error' = "LoadStudyError"
    /\ pc' = "except"
    /\ UNCHANGED <<dbExists, ledger, idx, worker, elapsed, sinceWait, reported, retval,
                   outcome, warned>>
    /\ CoordFrame

\* `except Exception`, lines 253-256: log, terminate every live process
ExceptTerminate ==
    /\ pc = "except"
    /\ worker' = [w \in Workers |->
                    IF (\E k \in DOMAIN processes : processes[k] = w) /\ Alive(w)
                    THEN [worker[w] EXCEPT !.status = "terminating"]
                    ELSE worker[w]]
    /\ pc' = "exceptjoin"
    /\ UNCHANGED <<dbExists, ledger, idx, elapsed, sinceWait, reported, retval, outcome,
                   error, warned>>
    /\ CoordFrame

\* lines 257-259: join(timeout=5) on every process returns whether or not the
\* process has ended by then; return {}
ExceptReturn ==
    /\ pc = "exceptjoin"
    /\ retval' = EmptyParams
    /\ pc' = "finally"
    /\ idx' = 1
    /\ UNCHANGED <<dbExists, ledger, worker, elapsed, sinceWait, reported, outcome, error,
                   warned>>
    /\ CoordFrame

(* ---------------------------- optimize(): teardown --------------------- *)
\* finally, lines 263-266: a process that is not alive is passed over
FinallySkip ==
    /\ pc = "finally"
    /\ idx <= Len(processes)
    /\ ~Alive(processes[idx])
    /\ idx' = idx + 1
    /\ UNCHANGED <<pc, dbExists, ledger, worker, elapsed, sinceWait, reported, retval,
                   outcome, error, warned>>
    /\ CoordFrame

\* variant of FinallyTerminate: the finally block leaves live processes alone
FinallyLeaveAlive ==
    /\ pc = "finally"
    /\ idx <= Len(processes)
    /\ Alive(processes[idx])
    /\ idx' = idx + 1
    /\ UNCHANGED <<pc, dbExists, ledger, worker, elapsed, sinceWait, reported, retval,
                   outcome, error, warned>>
    /\ CoordFrame

\* a process that is alive gets terminate(), then join() without a bound
FinallyTerminate ==
    /\ pc = "finally"
    /\ idx <= Len(processes)
    /\ Alive(processes[idx])
    /\ worker' = TerminateAndJoin(worker, processes[idx])
    /\ idx' = idx + 1
    /\ UNCHANGED <<pc, dbExists, ledger, elapsed, sinceWait, reported, retval, outcome,
                   error, warned>>
    /\ CoordFrame

\* lines 269-271: the database file is removed (or is not there), optimize() returns
RemoveDb ==
    /\ pc = "finally"
    /\ idx > Len(processes)
    /\ dbExists' = FALSE
    /\ pc' = "done"
    /\ outcome' = "returned"
    /\ UNCHANGED <<ledger, idx, worker, elapsed, sinceWait, reported, retval, error, warned>>
    /\ CoordFrame

\* variant of RemoveDbFails: the error of os.remove leaves optimize()
RemoveDbRaises ==
    /\ pc = "finally"
    /\ idx > Len(processes)
    /\ dbExists
    /\ pc' = "done"
    /\ outcome' = "raised"
    /\ error' = "OSError"
    /\ UNCHANGED <<dbExists, ledger, idx, worker, elapsed, sinceWait, reported, retval,
                   warned>>
    /\ CoordFrame

\* lines 272-273: os.remove raises, the warning is logged, optimize() returns
RemoveDbFails ==
    /\ pc = "finally"
    /\ idx > Len(processes)
    /\ dbExists
    /\ warned' = TRUE
    /\ pc' = "done"
    /\ outcome' = "returned"
    /\ UNCHANGED <<dbExists, ledger, idx, worker, elapsed, sinceWait, reported, retval,
                   error>>
    /\ CoordFrame

(* ---------------------------- the split routines ----------------------- *)
\* what a split routine leaves alone: its inputs and everything else
SplitFrame ==
    UNCHANGED <<pc, args, param_grid, n, cv, num_workers, timeout, progress, folds, study,
                dbExists, ledger, nworkers, idx, processes, worker, elapsed, sinceWait,
                reported, retval, outcome, error, warned, fitVars, evalVars,
                data, spliter, pairing, routine>>

UniquePairs(d) == PairsOf(d, Index(d))
PairLabels(d, g) == {d[i].label : i \in RowsOfPairs(d, {g})}
\* variant of SingleLabelPairs: the labels of the pairs are not checked
SingleLabelPairsUnchecked(d) == \A g \in UniquePairs(d) : Cardinality(PairLabels(d, g)) >= 1

\* line 56 (Spliter) and line 329 (Optimizer): every pair has one label
SingleLabelPairs(d) == \A g \in UniquePairs(d) : Cardinality(PairLabels(d, g)) = 1

\* Split.__init__: targets are the sorted training labels, targets.index(x)
\* raises ValueError for a test label that is not among them
\* sorted(list(y_train.unique())): the training labels in increasing order
Targets(d, train) ==
    LET S == LabelsOf(d, train)
    IN  CHOOSE t \in [1 .. Cardinality(S) -> S] :
            \A i, j \in 1 .. Cardinality(S) : i < j => t[i] < t[j]

\* targets.index(x), 0-based; -1 stands for the ValueError of a label that is
\* not in the list
TargetIndex(t, x) ==
    IF \E k \in DOMAIN t : t[k] = x
    THEN (CHOOSE k \in DOMAIN t : t[k] = x) - 1
    ELSE -1

SplitRecordRaises(d, train, test) == ~(LabelsOf(d, test) \subseteq LabelsOf(d, train))

SpliterCall ==
    /\ routine = "Spliter.split" /\ spc = "call"
    /\ IF pairing /\ ~SingleLabelPairs(data)
       THEN spc' = "raised" /\ serror' = "AssertionError"
       ELSE spc' = "loop" /\ UNCHANGED serror
    /\ UNCHANGED <<splits, fold>>
    /\ SplitFrame

\* the items handed to train_test_split and their stratification labels
Items(d) == IF pairing THEN UniquePairs(d) ELSE Index(d)
Strata(d) == IF pairing
             THEN [g \in UniquePairs(d) |-> CHOOSE l \in PairLabels(d, g) : TRUE]
             ELSE [i \in Index(d) |-> d[i].label]
RowsOf(d, part) == IF pairing THEN RowsOfPairs(d, part) ELSE part

SpliterIteration ==
    /\ routine = "Spliter.split" /\ spc = "loop"
    /\ Len(splits) < spliter.num_splits
    /\ IF TrainTestSplitRaises(Items(data), Strata(data), spliter.test_ratio)
       THEN spc' = "raised" /\ serror' = "ValueError" /\ UNCHANGED <<splits, fold>>
       ELSE \E p \in TrainTestSplit(Items(data), Strata(data), spliter.test_ratio) :
               \E train \in (IF spliter.max_proportion_diff = {}
                             THEN {RowsOf(data, p[1])}
                             ELSE Redistribute(data, RowsOf(data, p[1]),
                                               TheValue(spliter.max_proportion_diff))) :
                  /\ fold' = [train |-> train, test |-> RowsOf(data, p[2])]
                  /\ IF SplitRecordRaises(data, train, RowsOf(data, p[2]))
                     THEN spc' = "raised" /\ serror' = "ValueError" /\ UNCHANGED splits
                     ELSE /\ splits' = Append(splits, fold')
                          /\ UNCHANGED <<spc, serror>>
    /\ SplitFrame

SpliterReturn ==
    /\ routine = "Spliter.split" /\ spc = "loop"
    /\ Len(splits) >= spliter.num_splits
    /\ spc' = "returned"
    /\ UNCHANGED <<splits, fold, serror>>
    /\ SplitFrame

(* ---------------------------- the optimizer's folds -------------------- *)
\* variant of Slice: every slice starts at the first element
SliceFromStart(order, a, b) == {order[k] : k \in {j \in DOMAIN order : j <= b}}

\* unique_pairs[a:b] for 0-based a, b as numpy slices them
Slice(order, a, b) == {order[k] : k \in {j \in DOMAIN order : a < j /\ j <= b}}

\* Optimizer._split, lines 288-309: len(X) // self.cv raises ZeroDivisionError
\* for cv = 0; the shuffled row indexes are cut in cv slices of fold_size rows,
\* a fold validates on its slice and trains on every other row
CvSplit ==
    /\ routine = "Optimizer._split" /\ spc = "call"
    /\ IF cv = 0
       THEN spc' = "raised" /\ serror' = "ZeroDivisionError" /\ UNCHANGED splits
       ELSE /\ LET N == Len(data)
                   fold_size == N \div cv
               IN  \E order \in Permutations(Index(data)) :
                      splits' = [i \in 1 .. cv |->
                                   LET test_indexes == Slice([k \in 1 .. N |-> order[k]],
                                                             fold_size * (i - 1), fold_size * i)
                                   IN  [train |-> Index(data) \ test_indexes,
                                        test |-> test_indexes]]
            /\ spc' = "returned"
            /\ UNCHANGED serror
    /\ UNCHANGED fold
    /\ SplitFrame

(* ---------------------------- _worker and _objective ------------------- *)
\* balanced accuracies, in tenths
FoldScores == {0, 5, 7, 10}

\* <<score, K>> for which the float mean of K equal scores is not the score:
\* (0.7 + 0.7 + 0.7) / 3 is 0.6999999999999998, and np.std is then 1.1e-16
InexactMeans == {<<7, 3>>}

\* what a trial on the folds leaves alone
EvalFrame ==
    UNCHANGED <<pc, args, param_grid, n, cv, num_workers, timeout, progress, folds, study,
                dbExists, ledger, nworkers, idx, processes, worker, elapsed, sinceWait,
                reported, retval, outcome, error, warned, fitVars, splitVars, results>>

\* _worker, lines 93-94: the check is on the lists of folds, not on the folds;
\* its ValueError ends the worker process
WorkerCheck ==
    /\ routine \in {"Optimizer._split", "Optimizer._pair_split"}
    /\ spc = "returned" /\ tpc = "off"
    /\ tpc' = (IF Len(splits) = 0 THEN "exited" ELSE "fold")
    /\ UNCHANGED <<scores, objective>>
    /\ EvalFrame

\* variant of EvaluateFold: the model is scored on the rows it was trained on
EvaluateFoldOnTrain ==
    /\ tpc = "fold"
    /\ Len(scores) < Len(splits)
    /\ LET f == splits[Len(scores) + 1]
       IN  IF f.train = {} \/ f.test = {}
           THEN tpc' = "failed" /\ UNCHANGED scores
           ELSE /\ \E c \in FoldScores :
                      scores' = Append(scores, [train |-> f.train, val |-> f.train,
                                                score |-> c])
                /\ UNCHANGED tpc
    /\ UNCHANGED objective
    /\ EvalFrame

\* _objective, lines 62-70: a new model is trained on the fold's training rows
\* and scored on its validation rows; fit or predict on an empty array raises,
\* the trial fails and the worker goes on (line 101)
EvaluateFold ==
    /\ tpc = "fold"
    /\ Len(scores) < Len(splits)
    /\ LET f == splits[Len(scores) + 1]
       IN  IF f.train = {} \/ f.test = {}
           THEN tpc' = "failed" /\ UNCHANGED scores
           ELSE /\ \E c \in FoldScores :
                      scores' = Append(scores, [train |-> f.train, val |-> f.test,
                                                score |-> c])
                /\ UNCHANGED tpc
    /\ UNCHANGED objective
    /\ EvalFrame

\* np.mean(s) - np.std(s) for the scores s: the mean is sum / K, the standard
\* deviation is sqrt(dev) / K with dev = K * sum of squares - sum squared;
\* residue: the float standard deviation of equal scores is not zero
MeanMinusStd(s) ==
    LET K == Len(s)
        total == Sum([i \in 1 .. K |-> s[i]], 1 .. K)
        squares == Sum([i \in 1 .. K |-> s[i] * s[i]], 1 .. K)
    IN  [sum |-> total, folds |-> K, dev |-> K * squares - total * total,
         residue |-> (\A i \in 1 .. K : s[i] = s[1]) /\ <<s[1], K>> \in InexactMeans]

\* line 73: the value of the trial
Objective ==
    /\ tpc = "fold"
    /\ Len(scores) = Len(splits)
    /\ objective' = MeanMinusStd([i \in 1 .. Len(scores) |-> scores[i].score])
    /\ tpc' = "done"
    /\ UNCHANGED scores
    /\ EvalFrame

(* ---------------------------- Optimizer._pair_split ------------------- *)
PairSplitCheck ==
    /\ routine = "Optimizer._pair_split" /\ spc = "call"
    /\ IF ~SingleLabelPairs(data)
       THEN spc' = "raised" /\ serror' = "AssertionError"
       ELSE IF cv = 0
            THEN spc' = "raised" /\ serror' = "ZeroDivisionError"
            ELSE spc' = "loop" /\ UNCHANGED serror
    /\ UNCHANGED <<splits, fold>>
    /\ SplitFrame

\* variant of PairSplitFolds: the training part of a fold keeps every pair
PairSplitFoldsKeepAll ==
    /\ routine = "Optimizer._pair_split" /\ spc = "loop"
    /\ LET G == Cardinality(UniquePairs(data))
           fold_size == G \div cv
       IN  \E order \in Permutations(UniquePairs(data)) :
              splits' = [i \in 1 .. cv |->
                           LET test_idx == Slice([k \in 1 .. G |-> order[k]],
                                                 fold_size * (i - 1), fold_size * i)
                           IN  [train |-> RowsOfPairs(data, UniquePairs(data)),
                                test |-> RowsOfPairs(data, test_idx)]]
    /\ spc' = "returned"
    /\ UNCHANGED <<fold, serror>>
    /\ SplitFrame

\* lines 331-346: shuffle the pairs, then one fold per slice of fold_size pairs
PairSplitFolds ==
    /\ routine = "Optimizer._pair_split" /\ spc = "loop"
    /\ LET G == Cardinality(UniquePairs(data))
           fold_size == G \div cv
       IN  \E order \in Permutations(UniquePairs(data)) :
              splits' = [i \in 1 .. cv |->
                           LET test_idx == Slice([k \in 1 .. G |-> order[k]],
                                                 fold_size * (i - 1), fold_size * i)
                           IN  [train |-> RowsOfPairs(data, UniquePairs(data) \ test_idx),
                                test |-> RowsOfPairs(data, test_idx)]]
    /\ spc' = "returned"
    /\ UNCHANGED <<fold, serror>>
    /\ SplitFrame

(* ---------------------------- fit() and score() ------------------------ *)
\* a model object: the hyperparameters it was built with, whether the caller
\* built it, the data its last completed fit() used ("nothing": never fitted,
\* "other": fitted by the caller before the call), and how many times
\* Optimizer.fit has trained it
Model(params, prebuilt, trained_on) ==
    [params |-> params, prebuilt |-> prebuilt, trained_on |-> trained_on, fits |-> 0]

\* the models a caller passes as fit(model=...): fresh, or fitted before
PrebuiltModels == {Model({<<"x", 1>>}, TRUE, t) : t \in {"nothing", "other"}}

\* the datasets passed to score(): the one given to fit(), or another one
ScoreData == {"Xy", "other"}

\* model.fit(X, y) has completed
Trained(m, d) == [m EXCEPT !.trained_on = d, !.fits = @ + 1]

\* what fit() and score() leave alone
FitFrame ==
    UNCHANGED <<pc, args, param_grid, n, cv, num_workers, timeout, progress, folds, study,
                dbExists, ledger, nworkers, idx, processes, worker, elapsed, sinceWait,
                reported, retval, outcome, error, warned, splitVars, evalVars>>

NoCallActive == pc \in {"ready", "done"} /\ fpc \in {"idle", "failed", "fitted"}

\* variant of FitModel: a study is created before the supplied model is trained
FitModelCreatesStudy ==
    /\ NoCallActive
    /\ fpc \in {"idle", "failed"}
    /\ \E m \in PrebuiltModels :
          /\ model' = {Trained(m, "Xy")}
          /\ fpc' = "fitted"
    /\ scored' = NoScore
    /\ study' = TRUE
    /\ dbExists' = TRUE
    /\ UNCHANGED <<pc, args, param_grid, n, cv, num_workers, timeout, progress, folds,
                   ledger, nworkers, idx, processes, worker, elapsed, sinceWait,
                   reported, retval, outcome, error, warned, splitVars, evalVars>>

\* fit(X, y, model=m), lines 129-131: the model is stored, then trained on X, y;
\* model.fit may raise
FitModel ==
    /\ NoCallActive
    /\ fpc \in {"idle", "failed"}
    /\ \E m \in PrebuiltModels :
          \/ /\ model' = {Trained(m, "Xy")}
             /\ fpc' = "fitted"
          \/ /\ model' = {m}
             /\ fpc' = "failed"
    /\ scored' = NoScore
    /\ FitFrame

\* the optional arguments <<timeout, progress_cb given>> of fit(): a timeout, or
\* a callback
FitOptions == {<<1, FALSE>>, <<0, TRUE>>}

\* fit(X, y) or fit(X, y, timeout=..., progress_cb=...), line 133: the call of
\* optimize() with these arguments
FitSearch ==
    /\ pc = "ready"
    /\ fpc = "idle"
    /\ \E o \in FitOptions :
          /\ timeout' = o[1]
          /\ progress' = o[2]
    /\ pc' = "split"
    /\ fpc' = "search"
    /\ scored' = NoScore
    /\ UNCHANGED <<args, param_grid, n, cv, num_workers, folds, study, dbExists, ledger, nworkers,
                   idx, processes, worker, elapsed, sinceWait, reported, retval, outcome,
                   error, warned, splitVars, evalVars, model>>

\* line 133: optimize() raised, fit() raises with it
FitSearchRaised ==
    /\ pc = "done" /\ outcome = "raised"
    /\ fpc = "search"
    /\ fpc' = "failed"
    /\ UNCHANGED <<model, scored>>
    /\ FitFrame

\* line 134: self.model = self.model_cls(**hparams); the constructor may raise
FitBuild ==
    /\ pc = "done" /\ outcome = "returned"
    /\ fpc = "search"
    /\ \/ /\ model' = {Model(retval, FALSE, "nothing")}
          /\ fpc' = "train"
       \/ /\ fpc' = "failed"
          /\ UNCHANGED model
    /\ UNCHANGED scored
    /\ FitFrame

\* variant of FitTrain: the final model is trained on a cross-validation fold
FitTrainOnFold ==
    /\ fpc = "train"
    /\ model' = {Trained(TheValue(model), "fold")}
    /\ fpc' = "fitted"
    /\ UNCHANGED scored
    /\ FitFrame

\* line 135: self.model.fit(X, y) on the X, y passed to fit(); it may raise
FitTrain ==
    /\ fpc = "train"
    /\ \/ /\ model' = {Trained(TheValue(model), "Xy")}
          /\ fpc' = "fitted"
       \/ /\ fpc' = "failed"
          /\ UNCHANGED model
    /\ UNCHANGED scored
    /\ FitFrame

\* what score(X, y) with the dataset d gives, lines 144-147: RuntimeError without
\* a model; predict of a model that was never fitted raises the model's own
\* error; otherwise the balanced accuracy of the predictions, a function of the
\* fitted model and the data
ScoreResult(mo, d) ==
    IF mo = {}
    THEN [called |-> TRUE, raised |-> "RuntimeError", value |-> <<>>, data |-> d,
          again |-> FALSE]
    ELSE IF TheValue(mo).trained_on = "nothing"
         THEN [called |-> TRUE, raised |-> "PredictError", value |-> <<>>, data |-> d,
               again |-> FALSE]
         ELSE [called |-> TRUE, raised |-> "none",
               value |-> <<TheValue(mo).params, TheValue(mo).trained_on, d>>, data |-> d,
               again |-> FALSE]

\* variant of Score: scoring fits the model again on the data it is given
ScoreRefits ==
    /\ NoCallActive
    /\ \E d \in ScoreData :
          /\ scored' = [ScoreResult(model, d) EXCEPT !.again = (scored.data = d)]
          /\ model' = (IF model = {} THEN model ELSE {Trained(TheValue(model), d)})
    /\ UNCHANGED fpc
    /\ FitFrame

\* a call score(X, y)
Score ==
    /\ NoCallActive
    /\ \E d \in ScoreData :
          scored' = [ScoreResult(model, d) EXCEPT !.again = (scored.data = d)]
    /\ UNCHANGED <<model, fpc>>
    /\ FitFrame

(* ---------------------------- specification ---------------------------- *)
\* the steps of a call of optimize()
Run ==
    \/ Split
    \/ CreateStudy \/ CreateStudyFails \/ ResolveWorkers
    \/ LaunchWorker \/ LaunchFails \/ LaunchDone
    \/ MonitorSleep \/ Poll \/ PollFails \/ MonitorDone
    \/ JoinEnded \/ JoinTimeout \/ JoinDone
    \/ ReadBest \/ ReadBestFails
    \/ ExceptTerminate \/ ExceptReturn
    \/ FinallySkip \/ FinallyTerminate
    \/ RemoveDb \/ RemoveDbFails

Coordinator == Optimize \/ Run

WorkerStep(w) ==
    \/ WorkerBoot(w) \/ BeginTrial(w) \/ CompleteTrial(w) \/ FailTrial(w)
    \/ AttemptError(w) \/ WorkerExit(w)

Next ==
    \/ Coordinator
    \/ Tick
    \/ \E w \in Workers : WorkerStep(w)
    \/ \E w \in Workers : WorkerDies(w)

Spec == Init /\ [][Next]_vars

\* the ParamRange constructor applied to every combination of arguments
ParamSpec == ParamInit /\ [][NewParamRange]_vars

\* the split routines applied to every dataset and configuration
SplitNext ==
    \/ SpliterCall \/ SpliterIteration \/ SpliterReturn
    \/ PairSplitCheck \/ PairSplitFolds

SplitSpec == SplitInit /\ [][SplitNext]_vars

(* ---------------------------- analysis_pipeline ------------------------- *)
\* the classifiers of algogrids, in the order of the list
AlgoGrids == <<"RandomForestClassifier", "DecisionTreeClassifier",
               "RandomScmClassifier", "SetCoveringMachineClassifier">>

\* Spliter(num_splits=10, max_proportion_diff=0.2) with the default test_ratio
\* of 0.2; PipelineSplits outer splits stand for the 10 of the code
PipelineSplits == 2
PipelineSpliter == [test_ratio |-> <<1, 5>>, num_splits |-> PipelineSplits,
                    max_proportion_diff |-> {<<1, 5>>}]

PipelineFrame ==
    UNCHANGED <<pc, args, param_grid, n, cv, num_workers, timeout, progress, folds, study,
                dbExists, ledger, nworkers, idx, processes, worker, elapsed, sinceWait,
                reported, retval, outcome, error, warned, fitVars, splitVars,
                scores, objective>>

\* the entry of results that is being filled, and the place of the next one in
\* the two nested loops
Pending == Len(results) > 0 /\ ~results[Len(results)].stored
NextSplit == (Len(results) \div Len(AlgoGrids)) + 1
NextAlgo == (Len(results) % Len(AlgoGrids)) + 1

\* variant of PipelineFit: the optimizer is fitted on the whole dataset
PipelineFitOnAll ==
    /\ routine = "Spliter.split" /\ spc = "returned" /\ tpc = "off"
    /\ ~Pending /\ NextSplit <= Len(splits)
    /\ results' = Append(results,
                         [split |-> NextSplit, algo |-> AlgoGrids[NextAlgo],
                          searched |-> Index(data),
                          fitted |-> Index(data),
                          predicted |-> {},
                          scored |-> <<splits[NextSplit].test>>,
                          stored |-> FALSE])
    /\ UNCHANGED tpc
    /\ PipelineFrame

\* lines 166-175: Optimizer(...).fit(X_train, y_train), which hands its rows to
\* optimize() and to the final model.fit, then optim.score(X_test, y_test)
PipelineFit ==
    /\ routine = "Spliter.split" /\ spc = "returned" /\ tpc = "off"
    /\ ~Pending /\ NextSplit <= Len(splits)
    /\ results' = Append(results,
                         [split |-> NextSplit, algo |-> AlgoGrids[NextAlgo],
                          searched |-> splits[NextSplit].train,
                          fitted |-> splits[NextSplit].train,
                          predicted |-> {},
                          scored |-> <<splits[NextSplit].test>>,
                          stored |-> FALSE])
    /\ UNCHANGED tpc
    /\ PipelineFrame

\* line 174: fit() raises (the search failed or the model refused the data) and
\* the pipeline ends with the exception
PipelineFitRaises ==
    /\ routine = "Spliter.split" /\ spc = "returned" /\ tpc = "off"
    /\ ~Pending /\ NextSplit <= Len(splits)
    /\ tpc' = "failed"
    /\ UNCHANGED results
    /\ PipelineFrame

\* lines 176-182: predict(X_test), score(X_train, y_train), score(X_test, y_test)
\* and the entry of results
PipelineStore ==
    /\ routine = "Spliter.split" /\ spc = "returned" /\ tpc = "off"
    /\ Pending
    /\ LET k == Len(results)
           s == splits[results[k].split]
       IN  results' = [results EXCEPT ![k].predicted = s.test,
                                      ![k].scored = results[k].scored \o <<s.train, s.test>>,
                                      ![k].stored = TRUE]
    /\ UNCHANGED tpc
    /\ PipelineFrame

\* the state before splitter.split(X, y) in analysis_pipeline: the pairs of the
\* loader are not passed on
PipelineInit ==
    /\ pc = "ready"
    /\ args = GridArgs
    /\ param_grid = ParamRange(GridArgs.min_value, GridArgs.max_value,
                               GridArgs.discrete_values, GridArgs.log, GridArgs.integer)
    /\ n = 0 /\ num_workers = -1
    /\ Idle
    /\ NoFit
    /\ NoEval
    /\ routine = "Spliter.split"
    /\ spliter = PipelineSpliter
    /\ pairing = FALSE
    /\ cv = 2
    /\ data \in PlainData
    /\ splits = <<>>
    /\ fold = NoFold
    /\ spc = "call"
    /\ serror = "none"

PipelineNext ==
    \/ SpliterCall \/ SpliterIteration \/ SpliterReturn
    \/ PipelineFit \/ PipelineFitRaises \/ PipelineStore

PipelineSpec == PipelineInit /\ [][PipelineNext]_vars

\* the state before the optimizer's cross-validation split of a dataset
CvInit ==
    /\ pc = "ready"
    /\ args = GridArgs
    /\ param_grid = ParamRange(GridArgs.min_value, GridArgs.max_value,
                               GridArgs.discrete_values, GridArgs.log, GridArgs.integer)
    /\ n = 0 /\ num_workers = -1
    /\ Idle
    /\ NoFit
    /\ NoEval
    /\ routine \in {"Optimizer._split", "Optimizer._pair_split"}
    /\ spliter = NoSpliter
    /\ pairing = (routine = "Optimizer._pair_split")
    /\ cv \in CvFoldCounts
    /\ data \in {d \in (IF pairing THEN PairedData ELSE PlainData) :
                    LabelsOf(d, Index(d)) = {0}}
    /\ splits = <<>>
    /\ fold = NoFold
    /\ spc = "call"
    /\ serror = "none"

\* the split of the optimizer and one trial of a worker on its folds
CvNext ==
    \/ CvSplit \/ PairSplitCheck \/ PairSplitFolds
    \/ WorkerCheck \/ EvaluateFold \/ Objective

CvSpec == CvInit /\ [][CvNext]_vars

\* the caller's use of fit() and score() around the optimizer run
Caller ==
    \/ FitModel \/ FitSearch \/ FitSearchRaised \/ FitBuild \/ FitTrain
    \/ Score

\* an optimizer used through fit() and score() only: optimize() runs inside fit()
FitNext ==
    \/ Caller
    \/ Run
    \/ Tick
    \/ \E w \in Workers : WorkerStep(w)
    \/ \E w \in Workers : WorkerDies(w)

FitSpec == FitInit /\ [][FitNext]_vars

\* the coordinator and the clock keep running, a signalled process dies; a
\* worker's trial may take for ever
FairSpec ==
    /\ Spec
    /\ WF_vars(Coordinator)
    /\ WF_vars(Tick)
    /\ \A w \in Workers : WF_vars(WorkerDies(w))

TypeOK ==
    /\ pc \in {"ready", "split", "create", "workers", "launch", "monitor",
               "sleep", "join", "best", "except", "exceptjoin", "finally", "done"}
    /\ n \in TrialCounts /\ num_workers \in WorkerCounts /\ cv \in CvCounts
    /\ timeout \in Timeouts /\ progress \in BOOLEAN
    /\ Cardinality(Trials(ledger)) <= MaxTrials
    /\ folds \in {-1, 0, 2}
    /\ sinceWait \in 0 .. MaxWorkers /\ elapsed \in 0 .. 1
    /\ outcome \in {"none", "returned", "raised"}

(* ======================================================================= *)
(* Properties                                                              *)
(* ======================================================================= *)
Done == pc = "done"
Started == {w \in Workers : \E k \in DOMAIN processes : processes[k] = w}
NoneAlive == \A w \in Workers : ~Alive(w)
SplitBuilt == folds >= 0

(* ----------------------------------------------------------------------- *)
\* C1 (as stated): whenever optimize() has left after the study was created,
\* no worker process is alive and the database file has been removed.
C1_TeardownRemovesLedger ==
    (Done /\ study) => (NoneAlive /\ ~dbExists)

\* C1 (amended): whenever optimize() has left after the study was created, no
\* worker process is alive, and the database file has been removed unless its
\* removal failed, in which case the warning was logged.
C1_TeardownUnlessRemoveFails ==
    (Done /\ study) => (NoneAlive /\ (dbExists => warned))

\* a run that left through the exception handler with a killed worker and the file gone
C1_Witness ==
    /\ Done /\ study /\ ~dbExists
    /\ error = "OSError"
    /\ \E w \in Started : worker[w].status = "killed"

(* ----------------------------------------------------------------------- *)
\* C2: with a timeout set, optimize() eventually returns, whatever the workers
\* do and whether or not a progress callback was given.
C2_TimeoutReturns ==
    (pc = "split" /\ timeout # 0) ~> Done

(* ----------------------------------------------------------------------- *)
\* C3: with a timeout T, once more than T has passed since the coordinator
\* began to wait in the join loop, every worker has been terminated or has ended.
C3_NoWorkerOutlivesTimeout ==
    (timeout # 0 /\ sinceWait > timeout) => \A w \in Workers : worker[w].status # "alive"

(* ----------------------------------------------------------------------- *)
\* C4: when the search was entered (the split was built) and optimize() has
\* left with no COMPLETE trial in the ledger, it returned the empty dict and
\* raised nothing.
C4_EmptyWhenNoneComplete ==
    (Done /\ SplitBuilt /\ CompleteTrials(ledger) = {})
        => (outcome = "returned" /\ retval = EmptyParams)

\* trials were stored, none is COMPLETE (one FAIL, one left RUNNING by a killed
\* worker), best_params raised and {} was returned
C4_Witness ==
    /\ Done /\ outcome = "returned" /\ retval = EmptyParams
    /\ error = "ValueError"
    /\ \E t \in Trials(ledger) : TrialAt(ledger, t).state = "FAIL"
    /\ \E t \in Trials(ledger) : TrialAt(ledger, t).state = "RUNNING"

(* ----------------------------------------------------------------------- *)
\* C5 (as stated): the returned hyperparameters are those of a maximal COMPLETE
\* trial and are determined by the set of completed records alone: every
\* maximal COMPLETE trial carries the returned hyperparameters.
C5_OrderIndependent ==
    (Done /\ retval # EmptyParams) =>
        /\ \E t \in CompleteTrials(ledger) : TrialAt(ledger, t).params = retval
        /\ \A t \in CompleteTrials(ledger) :
              (\A k \in CompleteTrials(ledger) :
                    TrialAt(ledger, k).value <= TrialAt(ledger, t).value)
                  => TrialAt(ledger, t).params = retval

\* C5 (amended): the returned hyperparameters are those of a COMPLETE trial
\* whose value is maximal among the COMPLETE trials, never those of a FAIL or
\* RUNNING trial; they are determined by the completed records when all the
\* maximal ones carry the same hyperparameters.
C5_BestIsMaxComplete ==
    (Done /\ retval # EmptyParams) =>
        \E t \in Trials(ledger) :
            /\ TrialAt(ledger, t).state = "COMPLETE"
            /\ TrialAt(ledger, t).params = retval
            /\ \A k \in Trials(ledger) :
                  TrialAt(ledger, k).state = "COMPLETE"
                      => TrialAt(ledger, k).value <= TrialAt(ledger, t).value

\* two COMPLETE trials of one worker with different values and hyperparameters,
\* the later and larger one was returned
C5_Witness ==
    /\ Done /\ retval # EmptyParams
    /\ Len(ledger[0]) = 2
    /\ ledger[0][1].state = "COMPLETE" /\ ledger[0][2].state = "COMPLETE"
    /\ ledger[0][1].value < ledger[0][2].value
    /\ ledger[0][1].params # ledger[0][2].params
    /\ retval = ledger[0][2].params

(* ----------------------------------------------------------------------- *)
\* floor(a / b) and a mod b for a >= 0, b >= 1, by their defining inequalities
Floor(a, b) == CHOOSE q \in 0 .. a : q * b <= a /\ a < (q + 1) * b
Mod(a, b) == a - Floor(a, b) * b
RECURSIVE SumShares(_)
SumShares(k) == IF k = 0 THEN 0 ELSE worker[k - 1].share + SumShares(k - 1)
LaunchOver == pc \in {"monitor", "sleep", "join", "best"}

\* C6: for n >= 0 and w >= 1, once the launch loop is over worker i holds
\* floor(n/w) + (1 if i < n mod w) trials; the shares sum to n and differ by at
\* most one; exactly the workers with a non-zero share were started, in index
\* order, min(n, w) of them; n = 10, w = 3 gives 4, 3, 3.
C6_SharesPartitionBudget ==
    (LaunchOver /\ n >= 0 /\ nworkers >= 1) =>
          /\ \A i \in 0 .. (nworkers - 1) :
                worker[i].share = Floor(n, nworkers) + (IF i < Mod(n, nworkers) THEN 1 ELSE 0)
          /\ SumShares(nworkers) = n
          /\ \A i, k \in 0 .. (nworkers - 1) : worker[i].share - worker[k].share <= 1
          /\ Started = {i \in 0 .. (nworkers - 1) : worker[i].share > 0}
          /\ Len(processes) = Min(n, nworkers)
          /\ \A k \in DOMAIN processes : processes[k] = k - 1
          /\ <<WorkerTrials(0, 10, 3), WorkerTrials(1, 10, 3), WorkerTrials(2, 10, 3)>>
                = <<4, 3, 3>>

\* a budget that does not divide evenly: one trial, two workers, one process
C6_Witness ==
    /\ LaunchOver /\ n = 1 /\ nworkers = 2
    /\ processes = <<0>>
    /\ worker[0].share = 1 /\ worker[1].status = "none"

(* ----------------------------------------------------------------------- *)
TrialsOf(w) == {t \in Trials(ledger) : t[1] = w}

\* C7: a worker never makes more attempts than its share and has made exactly
\* its share when it leaves its loop, failed attempts included; it has at most
\* one trial in progress; a worker stores at most one trial per attempt, so
\* the ledger never holds more than n trials.
C7_WorkerMakesItsShare ==
    /\ \A w \in Workers :
          /\ worker[w].attempts <= worker[w].share
          /\ worker[w].status = "exited" => worker[w].attempts = worker[w].share
          /\ Cardinality(TrialsOf(w)) <=
                worker[w].attempts + (IF worker[w].wpc = "trial" THEN 1 ELSE 0)
          /\ Cardinality({t \in TrialsOf(w) : TrialAt(ledger, t).state = "RUNNING"}) <= 1
    /\ Cardinality(Trials(ledger)) <= (IF n > 0 THEN n ELSE 0)

\* a worker with a share of two whose first trial failed and whose second
\* trial completed, after which it left normally
C7_Witness ==
    \E w \in Workers :
        /\ worker[w].status = "exited" /\ worker[w].share = 2
        /\ Len(ledger[w]) = 2
        /\ ledger[w][1].state = "FAIL"
        /\ ledger[w][2].state = "COMPLETE"

(* ----------------------------------------------------------------------- *)
SetupErrors == {"CreateStudyError", "OSError"}

InvalidControls == num_workers = 0 \/ num_workers < -1 \/ n < 0
Called == pc # "ready"

\* C9: with a worker count of 0 or below -1, or a negative trial count,
\* optimize() creates no study and starts no process, and it leaves by raising.
C9_InvalidControlsRejected ==
    (Called /\ InvalidControls) =>
        /\ ~study /\ ~dbExists /\ processes = <<>>
        /\ Done => outcome = "raised"

(* ----------------------------------------------------------------------- *)
ExactlyOneKind(a) ==
    \/ a.min_value # {} /\ a.max_value # {} /\ a.discrete_values = {}
    \/ a.min_value = {} /\ a.max_value = {} /\ a.discrete_values # {}
Constructed == pc = "constructed" /\ outcome # "raised"

\* C10: the ParamRange constructor succeeds exactly when its arguments give one
\* domain kind: both bounds and no discrete values, or discrete values and no bound.
C10_ExactlyOneDomainKind ==
    pc = "constructed" => (Constructed <=> ExactlyOneKind(args))

(* ----------------------------------------------------------------------- *)
SpliterCalled == routine = "Spliter.split"
SplitReturned == spc = "returned"
Corrected == spliter.max_proportion_diff # {}
SplitRange == DOMAIN splits

\* C11 (as stated): when Spliter.split without pairing has returned, it has
\* built exactly num_splits splits, and in each of them the train and the
\* validation rows are disjoint and together are all the rows of the input.
C11_SplitsPartitionInput ==
    (SpliterCalled /\ ~pairing /\ SplitReturned) =>
        /\ Len(splits) = spliter.num_splits
        /\ \A k \in SplitRange :
              /\ splits[k].train \cap splits[k].test = {}
              /\ splits[k].train \cup splits[k].test = Index(data)

\* C11 (amended): when Spliter.split without pairing has returned, it has built
\* exactly num_splits splits; in each of them the train and the validation rows
\* are disjoint rows of the input and the validation part holds
\* ceil(test_ratio * N) rows; together they are all the rows of the input when
\* no max_proportion_diff is set.
C11_SplitsPartitionUncorrected ==
    (SpliterCalled /\ ~pairing /\ SplitReturned) =>
        /\ Len(splits) = spliter.num_splits
        /\ \A k \in SplitRange :
              /\ splits[k].train \cap splits[k].test = {}
              /\ (splits[k].train \cup splits[k].test) \subseteq Index(data)
              /\ Cardinality(splits[k].test) = NTest(Len(data), spliter.test_ratio)
              /\ ~Corrected => splits[k].train \cup splits[k].test = Index(data)

\* two different splits of a dataset with two classes, no correction
C11_Witness ==
    /\ SpliterCalled /\ ~pairing /\ SplitReturned /\ ~Corrected
    /\ Len(splits) = 2
    /\ splits[1].test # splits[2].test
    /\ splits[1].train \cup splits[1].test = Index(data)
    /\ Cardinality(LabelsOf(data, Index(data))) = 2

(* ----------------------------------------------------------------------- *)
\* C12: with pairing, in every split built by the Spliter and in every fold
\* built by the Optimizer no pair has rows both in the train part and in the
\* validation part.
C12_PairsOnOneSide ==
    pairing =>
        \A k \in SplitRange :
            PairsOf(data, splits[k].train) \cap PairsOf(data, splits[k].test) = {}

\* a paired split whose validation part holds a pair of two rows, and whose
\* training fold was cut by the imbalance correction
C12_Witness ==
    /\ SpliterCalled /\ pairing /\ Corrected
    /\ Len(splits) = 1
    /\ \E i, j \in splits[1].test : i # j /\ data[i].pair = data[j].pair
    /\ splits[1].train \cup splits[1].test # Index(data)

(* ----------------------------------------------------------------------- *)
MixedPair == \E i, j \in Index(data) :
                 data[i].pair = data[j].pair /\ data[i].label # data[j].label

\* C13: when a pair has two different labels, a paired split routine that was
\* entered has raised its error, whatever the number of splits, and has built
\* no split.
C13_MixedPairIsFatal ==
    (pairing /\ MixedPair /\ spc # "call") =>
        (spc = "raised" /\ serror = "AssertionError" /\ splits = <<>>)

\* the Optimizer's fold count is 0 and a pair has two labels: the error is the
\* assertion's, not the division's
C13_Witness ==
    /\ routine = "Optimizer._pair_split" /\ cv = 0
    /\ MixedPair
    /\ spc = "raised" /\ serror = "AssertionError"

(* ----------------------------------------------------------------------- *)
\* (largest class count - smallest class count) / fold size <= bound, over the
\* given classes
WithinBound(d, classes, rows, bound) ==
    \A a, b \in classes :
        (Cardinality(ClassRows(d, rows, a)) - Cardinality(ClassRows(d, rows, b))) * bound[2]
            <= bound[1] * Cardinality(rows)

\* the training rows of the last iteration as train_test_split drew them
RawTrain == Index(data) \ fold.test

\* C14: with max_proportion_diff = d, every training fold that came out of the
\* correction satisfies (largest class count - smallest class count) / fold size <= d, the
\* classes being those of the fold handed to the correction; with 24 minority
\* rows among 80 and d = 0.2 at most 36 majority rows are kept (60%).
C14_CorrectedFoldWithinBound ==
    (SpliterCalled /\ Corrected /\ fold # NoFold) =>
        /\ WithinBound(data, LabelsOf(data, RawTrain), fold.train,
                       TheValue(spliter.max_proportion_diff))
        /\ \A c \in MajorityCounts(24, <<1, 5>>) : c * 100 <= 60 * (c + 24)

(* ----------------------------------------------------------------------- *)
\* C15: with pairing, every validation part built by the Spliter is a union of
\* whole pairs and holds exactly ceil(test_ratio * G) of the G pairs; 10 pairs
\* and test_ratio = 0.2 give 2 pairs.
C15_WholePairsInValidation ==
    (SpliterCalled /\ pairing) =>
        /\ \A k \in SplitRange :
              /\ splits[k].test = RowsOfPairs(data, PairsOf(data, splits[k].test))
              /\ Cardinality(PairsOf(data, splits[k].test)) * spliter.test_ratio[2]
                    >= spliter.test_ratio[1] * Cardinality(UniquePairs(data))
              /\ (Cardinality(PairsOf(data, splits[k].test)) - 1) * spliter.test_ratio[2]
                    < spliter.test_ratio[1] * Cardinality(UniquePairs(data))
        /\ NTest(10, <<1, 5>>) = 2

\* four pairs, two of them with two rows, test_ratio = 2/5: two whole pairs
\* (three rows) are the validation part
C15_Witness ==
    /\ SpliterCalled /\ pairing /\ spliter.test_ratio = <<2, 5>>
    /\ Cardinality(UniquePairs(data)) = 4
    /\ Len(splits) = 1
    /\ Cardinality(PairsOf(data, splits[1].test)) = 2
    /\ Cardinality(splits[1].test) = 3

(* ----------------------------------------------------------------------- *)
\* a call fit(X, y, model=m) is one step from a state without a running search
PrebuiltFitStep ==
    /\ fpc \in {"idle", "failed"}
    /\ fpc' \in {"fitted", "failed"}
    /\ <<fpc, model>>' # <<fpc, model>>

\* C16: a call of fit() with a pre-built model builds no cross-validation
\* split, creates no study database and no trial, starts no worker process and
\* does not enter optimize(); the optimizer's model is the supplied model, and
\* when the call returns that model has been trained once, on the X, y given to
\* fit().
C16_PrebuiltFitSkipsSearch ==
    [][PrebuiltFitStep =>
          /\ UNCHANGED <<pc, folds, study, dbExists, ledger, nworkers, processes, worker,
                         retval, outcome>>
          /\ \E m \in PrebuiltModels :
                model' = {IF fpc' = "fitted" THEN Trained(m, "Xy") ELSE m}]_vars

\* the supplied model is the trained model of an optimizer that never searched
C16_Witness ==
    /\ pc = "ready" /\ fpc = "fitted"
    /\ model # {} /\ TheValue(model).prebuilt
    /\ TheValue(model).trained_on = "Xy" /\ TheValue(model).fits = 1
    /\ folds = -1 /\ ~study /\ ~dbExists
    /\ Trials(ledger) = {} /\ processes = <<>>

(* ----------------------------------------------------------------------- *)
\* C17: the model that fit() builds after a search carries exactly the
\* hyperparameters optimize() returned ({} stands for the defaults of the model
\* class); it is untrained until fit() trains it, and when fit() has returned it
\* has been trained once, on the X, y given to fit().
C17_FinalModelFromReturnedParams ==
    (fpc \in {"train", "fitted"} /\ model # {} /\ ~TheValue(model).prebuilt) =>
        /\ pc = "done" /\ outcome = "returned"
        /\ TheValue(model).params = retval
        /\ fpc = "train" =>
              TheValue(model).trained_on = "nothing" /\ TheValue(model).fits = 0
        /\ fpc = "fitted" =>
              TheValue(model).trained_on = "Xy" /\ TheValue(model).fits = 1

\* fit() has returned after a search that recorded a COMPLETE and a failed trial
C17_Witness ==
    /\ fpc = "fitted" /\ model # {} /\ ~TheValue(model).prebuilt
    /\ TheValue(model).params # EmptyParams
    /\ TheValue(model).trained_on = "Xy"
    /\ \E t \in Trials(ledger) : TrialAt(ledger, t).state = "FAIL"

(* ----------------------------------------------------------------------- *)
\* C18 (as stated): as long as no call of fit() has completed, a call of score()
\* raises the RuntimeError of the not-fitted check, and after a call of fit()
\* that raised the optimizer holds no model.
C18_ScoreNeedsCompletedFit ==
    /\ (fpc # "fitted" /\ scored.called) => scored.raised = "RuntimeError"
    /\ fpc = "failed" => model = {}

PollStep == pc = "sleep" /\ pc' = "monitor"

\* C20: the value passed to the progress callback changes only in a poll of a
\* run that was given a callback, and is then the number of COMPLETE trials in
\* the ledger; it never decreases and never exceeds n; a poll, failed or not,
\* changes nothing else: ledger, workers, database and pending result are as
\* they were.
C20_ProgressReportsCompleteCount ==
    [][/\ PollStep =>
             /\ reported' \in {reported, Cardinality(CompleteTrials(ledger))}
             /\ UNCHANGED <<ledger, worker, processes, dbExists, retval, outcome, error>>
       /\ reported' # reported =>
             /\ PollStep /\ progress
             /\ reported' = Cardinality(CompleteTrials(ledger))
             /\ reported' > reported
             /\ reported' <= n]_vars

\* a poll reported one COMPLETE trial of a ledger that also holds another trial
C20_Witness ==
    /\ pc = "monitor" /\ progress
    /\ reported = 1
    /\ reported = Cardinality(CompleteTrials(ledger))
    /\ Cardinality(Trials(ledger)) = 2
(* ----------------------------------------------------------------------- *)
\* the last step of optimize(): the end of the finally block
TeardownStep == pc = "finally" /\ pc' = "done"

\* C21: the step that ends the teardown makes optimize() return, never raise,
\* and the value returned is the one that was pending when the deletion was
\* tried, whether the deletion succeeded or failed; a failed deletion is only
\* recorded as a logged warning.
C21_DeletionFailureOnlyWarns ==
    [][/\ TeardownStep =>
             /\ outcome' = "returned"
             /\ retval' = retval
             /\ error' = error
             /\ UNCHANGED <<ledger, worker, processes>>
             /\ warned' => dbExists'
       /\ warned' # warned => TeardownStep /\ warned' /\ dbExists]_vars

\* optimize() returned the best hyperparameters although the file is still there
C21_Witness ==
    /\ pc = "done" /\ outcome = "returned"
    /\ warned /\ dbExists
    /\ retval # EmptyParams
    /\ \E t \in BestTrials(ledger) : TrialAt(ledger, t).params = retval
(* ----------------------------------------------------------------------- *)
\* a configuration the specification calls invalid
InvalidSpliter ==
    \/ spliter.num_splits < 1
    \/ spliter.test_ratio[1] <= 0
    \/ spliter.test_ratio[1] >= spliter.test_ratio[2]

\* C22 (as stated): a Spliter with num_splits < 1 or with a test_ratio outside
\* (0, 1) never returns from split() and builds no split.
C22_InvalidSpliterRejected ==
    (SpliterCalled /\ InvalidSpliter) => (spc # "returned" /\ splits = <<>>)
(* ----------------------------------------------------------------------- *)
OptimizerSplit == routine \in {"Optimizer._split", "Optimizer._pair_split"}
EmptyFold == \E k \in DOMAIN splits : splits[k].train = {} \/ splits[k].test = {}

\* the units the optimizer's split distributes: rows, or pairs
UnitsOf(S) == IF pairing THEN PairsOf(data, S) ELSE S

\* C30: the cv folds the optimizer builds have pairwise disjoint validation
\* parts of exactly floor(N / cv) rows (pairs with pairing, and then whole
\* pairs); in every fold the training and the validation part are disjoint and
\* together are the whole dataset, so the rows (pairs) left over by the division
\* are in every training part.
C30_CvFoldsPartition ==
    (OptimizerSplit /\ spc = "returned") =>
        /\ Len(splits) = (IF cv < 0 THEN 0 ELSE cv)
        /\ \A k \in DOMAIN splits :
              /\ splits[k].train \cap splits[k].test = {}
              /\ splits[k].train \cup splits[k].test = Index(data)
              /\ UnitsOf(splits[k].train) \cap UnitsOf(splits[k].test) = {}
              /\ Cardinality(UnitsOf(splits[k].test)) * cv <= Cardinality(UnitsOf(Index(data)))
              /\ (Cardinality(UnitsOf(splits[k].test)) + 1) * cv
                    > Cardinality(UnitsOf(Index(data)))
              /\ \A j \in DOMAIN splits : j # k => splits[j].test \cap splits[k].test = {}
        /\ \A i \in Index(data) :
              (\A k \in DOMAIN splits : i \notin splits[k].test) =>
                  (\A k \in DOMAIN splits : i \in splits[k].train)

\* three folds of one row each out of five rows: two rows are left over
C30_Witness ==
    /\ routine = "Optimizer._split" /\ spc = "returned"
    /\ cv = 3 /\ Len(data) = 5
    /\ \A k \in DOMAIN splits : Cardinality(splits[k].test) = 1
    /\ Cardinality({i \in Index(data) : \A k \in DOMAIN splits : i \in splits[k].train}) = 2

(* ----------------------------------------------------------------------- *)
\* C23 (as stated): the optimizer's split never returns a fold whose training
\* or validation part is empty, and no trial is evaluated on such folds.
C23_EmptyFoldIsFatal ==
    /\ (OptimizerSplit /\ spc = "returned") => ~EmptyFold
    /\ tpc \in {"fold", "failed", "done"} => ~EmptyFold

(* ----------------------------------------------------------------------- *)
AllEqual(s) == \A i, j \in DOMAIN s : s[i].score = s[j].score

SomeStarted == \E w \in Workers : worker[w].status # "none"

\* C25: a worker process exists only after the study was created; the run is
\* at the reading of the best trial only when no worker is alive; and the
\* database file of a created study is gone only when optimize() has left and no
\* worker is alive, so that a live worker always has its database.
C25_RunOrder ==
    /\ SomeStarted => study
    /\ pc \in {"launch", "monitor", "sleep", "join", "best"} => (study /\ dbExists)
    /\ pc = "best" => NoneAlive
    /\ (study /\ ~dbExists) => (pc = "done" /\ NoneAlive)
    /\ (\E w \in Workers : Alive(w)) => dbExists

\* a run with a timeout: one worker was killed by the join loop, the best trial
\* of the other was returned, the file is gone
C25_Witness ==
    /\ pc = "done" /\ outcome = "returned" /\ error = "none"
    /\ study /\ ~dbExists
    /\ retval # EmptyParams
    /\ \E w \in Started : worker[w].status = "killed"
    /\ \E w \in Started : worker[w].status = "exited"

(* ----------------------------------------------------------------------- *)
RunningTrials(l, w) == {i \in DOMAIN l[w] : l[w][i].state = "RUNNING"}

\* C26: in every step and for every worker w, the trials of w only grow by one
\* at the end, keep their hyperparameters, and do not change at all once they
\* are COMPLETE or FAIL; they change only in a step of the live worker w, which
\* changes no other worker's trials; and w never has two trials in progress.
C26_TrialsWrittenOnceByOwner ==
    [][\A w \in Workers :
          /\ Len(ledger'[w]) \in {Len(ledger[w]), Len(ledger[w]) + 1}
          /\ \A i \in DOMAIN ledger[w] :
                /\ ledger'[w][i].params = ledger[w][i].params
                /\ ledger[w][i].state # "RUNNING" => ledger'[w][i] = ledger[w][i]
          /\ ledger'[w] # ledger[w] =>
                /\ Running(w)
                /\ worker'[w] # worker[w]
                /\ \A u \in Workers \ {w} :
                      ledger'[u] = ledger[u] /\ worker'[u] = worker[u]
          /\ Cardinality(RunningTrials(ledger', w)) <= 1]_vars

\* a killed worker left its trial unfinished while another worker's trial is
\* COMPLETE and its next one is in progress
C26_Witness ==
    \E w, u \in Workers :
        /\ w # u
        /\ worker[w].status = "killed"
        /\ RunningTrials(ledger, w) = {Len(ledger[w])}
        /\ Len(ledger[u]) >= 1 /\ ledger[u][1].state = "COMPLETE"
(* ----------------------------------------------------------------------- *)
MajorityOf(d, rows) ==
    {c \in LabelsOf(d, rows) :
        \A e \in LabelsOf(d, rows) :
            Cardinality(ClassRows(d, rows, e)) <= Cardinality(ClassRows(d, rows, c))}

\* C27: after the imbalance correction the validation fold is the one that was
\* drawn, the training fold is a subset of the drawn training rows, and for one
\* majority class of the drawn training rows every row of every other class is
\* still in the training fold, whatever the number of classes.
C27_CorrectionTouchesMajorityOnly ==
    (SpliterCalled /\ Corrected /\ fold # NoFold) =>
        /\ fold.test \cap fold.train = {}
        /\ fold.train \subseteq RawTrain
        /\ \E major \in MajorityOf(data, RawTrain) :
              \A c \in LabelsOf(data, RawTrain) \ {major} :
                  ClassRows(data, fold.train, c) = ClassRows(data, RawTrain, c)

(* ----------------------------------------------------------------------- *)
\* C28: in every split drawn from a dataset the ordered label list is the sorted
\* list of the labels of the dataset, so that every label has the same index in
\* 0..C-1 in every split, every validation label has an index, and the list
\* gives the label back at that index.
C28_SameDenseIndexInEverySplit ==
    (SpliterCalled /\ fold # NoFold) =>
        LET t == Targets(data, fold.train)
        IN  /\ t = Targets(data, Index(data))
            /\ \A i \in fold.train \cup fold.test :
                  /\ TargetIndex(t, data[i].label) \in 0 .. Len(t) - 1
                  /\ t[TargetIndex(t, data[i].label) + 1] = data[i].label
(* ----------------------------------------------------------------------- *)
\* C24: for every entry of results, made for one outer split and one
\* algorithm, the rows given to the hyperparameter search and to the final fit
\* are exactly the training fold of that split and none of them is in its test
\* fold; the rows predicted are the test fold and every scoring is on one of the
\* two folds of that split.
C24_FitSeesTrainingFoldOnly ==
    \A k \in DOMAIN results :
        LET r == results[k]
            s == splits[r.split]
        IN  /\ r.searched = s.train /\ r.fitted = s.train
            /\ r.searched \cap s.test = {} /\ r.fitted \cap s.test = {}
            /\ r.predicted \subseteq s.test
            /\ \A j \in DOMAIN r.scored : r.scored[j] \in {s.train, s.test}

\* every algorithm was fitted and stored for both outer splits, and a row of
\* the test fold of the first split is a training row of the second
C24_Witness ==
    /\ Len(splits) = PipelineSplits
    /\ Len(results) = PipelineSplits * Len(AlgoGrids)
    /\ \A k \in DOMAIN results : results[k].stored /\ results[k].fitted # {}
    /\ splits[1].test \cap splits[2].train # {}
    /\ \E k \in DOMAIN results : results[k].split = 2 /\ results[k].algo = AlgoGrids[2]

====
